---------------------------- MODULE Spec2Model ----------------------------
(***************************************************************************)
(* The shape-function kernel test of the 8-node hexahedron with the 2x2x2  *)
(* Gauss-Legendre rule (testShapeFunctionKernel.cpp): the kernel driver,   *)
(* the reference computation of the test and its comparisons.              *)
(*                                                                         *)
(* real64 values are modelled exactly, as elements of the field Q(sqrt 3)  *)
(* (every number of the test is a rational combination of 1 and sqrt 3):   *)
(* rounding is not modelled, EXPECT_FLOAT_EQ is exact equality, and a      *)
(* division by zero gives an infinity whose sign is not modelled.          *)
(***************************************************************************)
EXTENDS Integers, Sequences, FiniteSets, TLC

\* F(e), with e evaluated once
Bind(F(_), e) == CHOOSE r \in {F(v) : v \in {e}} : TRUE

\* F(d, e), with d and e evaluated once
Bind2(F(_, _), d, e) == CHOOSE r \in {F(v, w) : v \in {d}, w \in {e}} : TRUE

(***************************************************************************)
(* Integers and the ring Z[sqrt 3]: <<a, b>> is a + b*sqrt(3).             *)
(***************************************************************************)
Abs(x) == IF x < 0 THEN -x ELSE x

RECURSIVE Gcd(_, _)
Gcd(a, b) == IF b = 0 THEN a ELSE Bind2(Gcd, b, a % b)

\* exact quotient of a multiple x of k > 0 (x may be negative)
ExactDiv(x, k) == IF x < 0 THEN -((-x) \div k) ELSE x \div k

ZAdd(p, q) == <<p[1] + q[1], p[2] + q[2]>>

ZNeg(p) == <<-p[1], -p[2]>>

ZScale(k, p) == <<k * p[1], k * p[2]>>

ZMul(p, q) == <<p[1] * q[1] + 3 * p[2] * q[2], p[1] * q[2] + p[2] * q[1]>>

ZDiv(p, k) == <<ExactDiv(p[1], k), ExactDiv(p[2], k)>>

Content(p) == Gcd(Abs(p[1]), Abs(p[2]))

\* the sign of a + b*sqrt(3): 5/3 < sqrt(3) < 7/4 decides all but a narrow
\* band, where the squares are compared
ZSign(p) ==
  LET a == p[1]
      b == p[2]
  IN  IF a = 0 /\ b = 0 THEN 0
      ELSE IF a >= 0 /\ b >= 0 THEN 1
      ELSE IF a <= 0 /\ b <= 0 THEN -1
      ELSE IF a > 0
             THEN \* b < 0: positive iff a > |b| sqrt 3
                  IF 4 * a >= 7 * (-b) THEN 1
                  ELSE IF 3 * a <= 5 * (-b) THEN -1
                  ELSE IF a * a > 3 * b * b THEN 1 ELSE -1
             ELSE \* a < 0, b > 0: positive iff b sqrt 3 > |a|
                  IF 4 * (-a) >= 7 * b THEN -1
                  ELSE IF 3 * (-a) <= 5 * b THEN 1
                  ELSE IF 3 * b * b > a * a THEN 1 ELSE -1

(***************************************************************************)
(* real64: [n, c, u] is n / (c * u) with n, u in Z[sqrt 3], c a positive   *)
(* integer, u primitive with its first non-zero component positive, and    *)
(* no integer dividing n and c.  A value with u = <<1, 0>> is in canonical *)
(* form; others are compared by REq.                                       *)
(***************************************************************************)
ZOne == <<1, 0>>

Zero == [n |-> <<0, 0>>, c |-> 1, u |-> ZOne]

\* c = 0: the results of dividing by zero.  Inf is an infinity (its sign is
\* not modelled); NonFinite is a NaN or an infinity nothing more is known of
Inf == [n |-> <<1, 0>>, c |-> 0, u |-> ZOne]

NonFinite == [n |-> <<0, 0>>, c |-> 0, u |-> ZOne]

IsFinite(x) == x.c # 0

\* n / (c * u) with the integer g divided out of n and c
Reduced(n, c, u, g) == [n |-> ZDiv(n, g), c |-> c \div g, u |-> u]

\* n / c in lowest terms, c > 0
NormQ(n, c) ==
  IF n = <<0, 0>> THEN Zero
  ELSE Bind(LAMBDA g : Reduced(n, c, ZOne, g), Gcd(Content(n), c))

\* n / (c * u), c > 0, u primitive with its first non-zero component
\* positive: 1/sqrt(3) is sqrt(3)/3, and a numerator that is an integer
\* multiple of u leaves that integer
NormU(n, c, u) ==
  IF u = ZOne THEN NormQ(n, c)
  ELSE IF u = <<0, 1>> THEN NormQ(<<3 * n[2], n[1]>>, 3 * c)
  ELSE IF n[1] % u[1] = 0 /\ n[2] = ExactDiv(n[1], u[1]) * u[2]
    THEN NormQ(<<ExactDiv(n[1], u[1]), 0>>, c)
  ELSE Bind(LAMBDA g : Reduced(n, c, u, g), Gcd(Content(n), c))

\* n / (c * u) for c > 0 and any u # 0, the three given as values
NormV(n, c, u) ==
  IF n = <<0, 0>> THEN Zero
  ELSE IF u = ZOne THEN NormQ(n, c)
  ELSE IF u[1] < 0 \/ (u[1] = 0 /\ u[2] < 0)
    THEN Bind(LAMBDA g : NormU(ZNeg(n), c * g, ZDiv(ZNeg(u), g)), Content(u))
    ELSE Bind(LAMBDA g : NormU(n, c * g, ZDiv(u, g)), Content(u))

Norm(n, c, u) == CHOOSE r \in {NormV(a, b, d) : a \in {n}, b \in {c}, d \in {u}} : TRUE

\* the integer k, and the rational k / d
RInt(k) == [n |-> <<k, 0>>, c |-> 1, u |-> ZOne]

RRat(k, d) == Norm(<<k, 0>>, d, ZOne)

One == RInt(1)

\* the literal 1.732050807568877293528
Sqrt3 == [n |-> <<0, 1>>, c |-> 1, u |-> ZOne]

RNegV(x) == IF IsFinite(x) THEN [x EXCEPT !.n = ZNeg(x.n)] ELSE x

RNeg(x) == Bind(RNegV, x)

\* x * y with g1 dividing x.n and y.c, g2 dividing y.n and x.c
MulCore(x, y, g1, g2) ==
  Norm(ZMul(ZDiv(x.n, g1), ZDiv(y.n, g2)),
       (x.c \div g2) * (y.c \div g1),
       IF x.u = ZOne THEN y.u ELSE IF y.u = ZOne THEN x.u ELSE ZMul(x.u, y.u))

RMulV(x, y) ==
  IF x = NonFinite \/ y = NonFinite THEN NonFinite
  ELSE IF ~IsFinite(x) \/ ~IsFinite(y)
    THEN \* inf * 0 is a NaN, inf * anything else an infinity
         IF x = Zero \/ y = Zero THEN NonFinite ELSE Inf
  ELSE IF x.n = <<0, 0>> \/ y.n = <<0, 0>> THEN Zero
  ELSE Bind2(LAMBDA g1, g2 : MulCore(x, y, g1, g2),
             Gcd(Content(x.n), y.c), Gcd(Content(y.n), x.c))

RMul(x, y) == Bind2(RMulV, x, y)

\* x + y over the common denominator l * u, l the least common multiple of
\* x.c and y.c
AddCore(x, y, l) ==
  IF x.u = y.u
    THEN Norm(ZAdd(ZScale(l \div x.c, x.n), ZScale(l \div y.c, y.n)), l, x.u)
    ELSE Norm(ZAdd(ZScale(l \div x.c, ZMul(x.n, y.u)),
                   ZScale(l \div y.c, ZMul(y.n, x.u))), l, ZMul(x.u, y.u))

RAddV(x, y) ==
  IF x = NonFinite \/ y = NonFinite THEN NonFinite
  ELSE IF ~IsFinite(x) \/ ~IsFinite(y)
    THEN \* inf + finite is that infinity; inf + inf is one or a NaN
         IF IsFinite(x) \/ IsFinite(y) THEN Inf ELSE NonFinite
  ELSE IF x.n = <<0, 0>> THEN y
  ELSE IF y.n = <<0, 0>> THEN x
  ELSE Bind(LAMBDA g : AddCore(x, y, (x.c \div g) * y.c), Gcd(x.c, y.c))

RAdd(x, y) == Bind2(RAddV, x, y)

RSub(x, y) == RAdd(x, RNeg(y))

\* 1 / x, with 1 / 0 = inf and 1 / inf = 0
RInvV(x) ==
  IF x = NonFinite THEN NonFinite
  ELSE IF x = Inf THEN Zero
  ELSE IF x.n = <<0, 0>> THEN Inf
  ELSE Norm(ZScale(x.c, x.u), 1, x.n)

RInv(x) == Bind(RInvV, x)

RDiv(x, y) == RMul(x, RInv(y))

\* equality of two finite values (EXPECT_FLOAT_EQ without rounding)
REq(x, y) ==
  IF ~IsFinite(x) \/ ~IsFinite(y) THEN FALSE
  ELSE IF x = y THEN TRUE
  ELSE IF x.u = y.u THEN FALSE
  ELSE ZMul(x.n, ZScale(y.c, y.u)) = ZMul(y.n, ZScale(x.c, x.u))

\* the results a comparison can have: that of two finite values is decided;
\* with an infinity or a NaN among them it may pass or fail
CmpOutcomes(x, y) ==
  IF IsFinite(x) /\ IsFinite(y) THEN {REq(x, y)} ELSE {TRUE, FALSE}

\* the sign of a finite value
RSign(x) == ZSign(x.n) * ZSign(x.u)

(***************************************************************************)
(* The data of the test.                                                   *)
(***************************************************************************)
numNodes == 8

numQuadraturePoints == 8

\* the iteration count handed to every forAll of the driver
forAllCount == 1

Nodes == 0 .. numNodes - 1

QPoints == 0 .. numQuadraturePoints - 1

Axes == 0 .. 2

\* pCoords with the sign of node 3 on axis 0 mistyped
pCoordsSlip ==
  << << -1,  1, -1, -1, -1,  1, -1,  1 >>,
     << -1, -1,  1,  1, -1, -1,  1,  1 >>,
     << -1, -1, -1, -1,  1,  1,  1,  1 >> >>

\* pCoords[i][a]: the sign of node a on axis i
pCoords ==
  << << -1,  1, -1,  1, -1,  1, -1,  1 >>,
     << -1, -1,  1,  1, -1, -1,  1,  1 >>,
     << -1, -1, -1, -1,  1,  1,  1,  1 >> >>

pC(i, a) == pCoords[i + 1][a + 1]

\* xCoords[a][i], in tenths
xCoords ==
  << << -11, -13, -11 >>,
     <<  13, -11, -12 >>,
     << -12,  11, -11 >>,
     <<  11,  12, -13 >>,
     << -13, -12,  11 >>,
     <<  11, -13,  12 >>,
     << -12,  12,  13 >>,
     <<  12,  11,  11 >> >>

\* the coordinate of node a of element E on axis i: E holds tenths
Coord(E, a, i) == RRat(E[a + 1][i + 1], 10)

quadratureFactor == RDiv(One, Sqrt3)

Eighth == RRat(1, 8)

\* << f(0), .., f(n - 1) >>: a loop that fills an array
RECURSIVE Table(_, _)
Table(f(_), n) == IF n = 0 THEN << >> ELSE Append(Table(f, n - 1), f(n - 1))

\* 0 + f(0) + .. + f(n - 1): a loop that adds up from zero
RECURSIVE SumTo(_, _)
SumTo(f(_), n) == IF n = 0 THEN Zero ELSE RAdd(SumTo(f, n - 1), f(n - 1))

\* c * f(0) * .. * f(n - 1), multiplied from the left
RECURSIVE ProdTo(_, _, _)
ProdTo(c, f(_), n) == IF n = 0 THEN c ELSE RMul(ProdTo(c, f, n - 1), f(n - 1))

(***************************************************************************)
(* The reference computation of the test (its last forAll).  The operators *)
(* take values: an element E, a coordinate x, a matrix M.                  *)
(***************************************************************************)
\* xi of quadrature point q
xiAt(q) == Table(LAMBDA k : RMul(quadratureFactor, RInt(pC(k, q))), 3)

\* ( 1 + xi[ k ]*pCoords[ k ][ a ] )
Fac(x, k, a) == RAdd(One, RMul(x[k + 1], RInt(pC(k, a))))

\* refN with the factor of axis 2 taken on axis 1
refNSlip(x, a) == ProdTo(Eighth, LAMBDA k : Fac(x, IF k = 2 THEN 1 ELSE k, a), 3)

\* the shape value of node a at x
refN(x, a) == ProdTo(Eighth, LAMBDA k : Fac(x, k, a), 3)

refNAll(x) == Table(LAMBDA a : refN(x, a), numNodes)

\* dNdXi[ j ] of node a at x: the factor of axis j is pCoords[ j ][ a ]
refdNdXiAt(x, a, j) ==
  ProdTo(Eighth, LAMBDA k : IF k = j THEN RInt(pC(k, a)) ELSE Fac(x, k, a), 3)

\* dNdXi[3] of node a at x
refdNdXi(x, a) == Table(LAMBDA j : refdNdXiAt(x, a, j), 3)

refdNdXiAll(x) == Table(LAMBDA a : refdNdXi(x, a), numNodes)

\* refJEntry with the loop over the nodes stopping one node early
refJEntrySlip(E, T, i, j) ==
  SumTo(LAMBDA a : RMul(Coord(E, a, i), T[a + 1][j + 1]), numNodes - 1)

\* J[i][j]: the sum over the nodes a of xCoords[a][i] * dNdXi[j], T the
\* dNdXi of the eight nodes
refJEntry(E, T, i, j) ==
  SumTo(LAMBDA a : RMul(Coord(E, a, i), T[a + 1][j + 1]), numNodes)

refJOf(E, T) == Table(LAMBDA i : Table(LAMBDA j : refJEntry(E, T, i, j), 3), 3)

refJ(E, x) == Bind(LAMBDA T : refJOf(E, T), refdNdXiAll(x))

\* the assignments to scratch: scratchTerms[i+1][j+1] = << r1, c1, r2, c2,
\* r3, c3, r4, c4 >> stands for
\* scratch[i][j] = J[r1][c1]*J[r2][c2] - J[r3][c3]*J[r4][c4]
scratchTerms ==
  << << << 1, 1, 2, 2, 1, 2, 2, 1 >>,
        << 1, 2, 2, 0, 1, 0, 2, 2 >>,
        << 1, 0, 2, 1, 1, 1, 2, 0 >> >>,
     << << 0, 2, 2, 1, 0, 1, 2, 2 >>,
        << 0, 0, 2, 2, 0, 2, 2, 0 >>,
        << 0, 1, 2, 0, 0, 0, 2, 1 >> >>,
     << << 0, 1, 1, 2, 0, 2, 1, 1 >>,
        << 0, 2, 1, 0, 0, 0, 1, 2 >>,
        << 0, 0, 1, 1, 0, 1, 1, 0 >> >> >>

ScratchEntry(M, t) ==
  RSub(RMul(M[t[1] + 1][t[2] + 1], M[t[3] + 1][t[4] + 1]),
       RMul(M[t[5] + 1][t[6] + 1], M[t[7] + 1][t[8] + 1]))

\* scratch as inverse() fills it: Cof(M)[i+1][j+1] is scratch[i][j]
Cof(M) ==
  Table(LAMBDA i : Table(LAMBDA j : ScratchEntry(M, scratchTerms[i + 1][j + 1]), 3), 3)

\* InvDet with the indices of scratch exchanged
InvDetSlip(M, scratch) ==
  RDiv(One, SumTo(LAMBDA i : RMul(M[i + 1][1], scratch[1][i + 1]), 3))

\* invDet = 1 / ( J[0][0]*scratch[0][0] + J[1][0]*scratch[1][0]
\*                + J[2][0]*scratch[2][0] )
InvDet(M, scratch) ==
  RDiv(One, SumTo(LAMBDA i : RMul(M[i + 1][1], scratch[i + 1][1]), 3))

\* Scaled without the transposition: J[i][j] = scratch[i][j] * invDet
ScaledSlip(scratch, invDet) ==
  [J |-> Table(LAMBDA i : Table(LAMBDA j : RMul(scratch[i + 1][j + 1], invDet), 3), 3),
   invDet |-> invDet]

\* J[i][j] = scratch[j][i] * invDet
Scaled(scratch, invDet) ==
  [J |-> Table(LAMBDA i : Table(LAMBDA j : RMul(scratch[j + 1][i + 1], invDet), 3), 3),
   invDet |-> invDet]

inverseV(M) ==
  Bind(LAMBDA scratch :
         Bind(LAMBDA invDet : Scaled(scratch, invDet), InvDet(M, scratch)),
       Cof(M))

\* inverse( J ): J overwritten by its inverse, and the returned invDet
inverse(M) == Bind(inverseV, M)

\* refdNdX with J[i][j] for J[j][i]
refdNdXSlip(d, Jinv) ==
  Table(LAMBDA i : SumTo(LAMBDA j : RMul(d[j + 1], Jinv[i + 1][j + 1]), 3), 3)

\* dNdX[3] of one node: dNdX[i] += dNdXi[j] * J[j][i], J the inverse
refdNdX(d, Jinv) ==
  Table(LAMBDA i : SumTo(LAMBDA j : RMul(d[j + 1], Jinv[j + 1][i + 1]), 3), 3)

\* refdNdXOf with the loop over the nodes stopping one node early
refdNdXOfSlip(T, Jinv) ==
  Append(Table(LAMBDA a : refdNdX(T[a + 1], Jinv), numNodes - 1), << Zero, Zero, Zero >>)

refdNdXOf(T, Jinv) == Table(LAMBDA a : refdNdX(T[a + 1], Jinv), numNodes)

\* the dNdX of the eight nodes at x
refdNdXAll(x, Jinv) == Bind2(refdNdXOf, refdNdXiAll(x), Jinv)

(***************************************************************************)
(* Hexahedron_Lagrange1_GaussLegendre2: the element formulation the        *)
(* driver calls.                                                           *)
(***************************************************************************)
\* the sign of corner a on axis k, axis 0 varying fastest
parentCoords(k, a) ==
  IF k = 0 THEN 2 * (a % 2) - 1
  ELSE IF k = 1 THEN 2 * ((a \div 2) % 2) - 1
  ELSE 2 * ((a \div 4) % 2) - 1

\* ( 1 + s_k(a) * xi_k ) at the Gauss point of index q
KFac(q, k, a) ==
  RAdd(One, RMul(RMul(quadratureFactor, RInt(parentCoords(k, q))),
                 RInt(parentCoords(k, a))))

KN(q, a) == ProdTo(Eighth, LAMBDA k : KFac(q, k, a), 3)

\* shapeFunctionValues( q, N ): the filled N
shapeFunctionValues(q) == Table(LAMBDA a : KN(q, a), numNodes)

\* dN_a/dxi_j: the factor of axis j replaced by its sign
KdNdXiAt(q, a, j) ==
  ProdTo(Eighth,
         LAMBDA k : IF k = j THEN RInt(parentCoords(k, a)) ELSE KFac(q, k, a), 3)

KdNdXi(q, a) == Table(LAMBDA j : KdNdXiAt(q, a, j), 3)

KdNdXiAll(q) == Table(LAMBDA a : KdNdXi(q, a), numNodes)

\* J[i][j] = sum_a coord[a][i] * dNdXi[a][j]
KJEntry(E, T, i, j) ==
  SumTo(LAMBDA a : RMul(Coord(E, a, i), T[a + 1][j + 1]), numNodes)

KJ(E, T) == Table(LAMBDA i : Table(LAMBDA j : KJEntry(E, T, i, j), 3), 3)

\* the index (1-based) d places after i, cyclically
Cyc(i, d) == ((i + d) % 3) + 1

\* the cofactor of M[i][j]
KCof(M, i, j) ==
  RSub(RMul(M[Cyc(i, 1)][Cyc(j, 1)], M[Cyc(i, 2)][Cyc(j, 2)]),
       RMul(M[Cyc(i, 1)][Cyc(j, 2)], M[Cyc(i, 2)][Cyc(j, 1)]))

\* the determinant, expanded along the first row
KDet(M) == SumTo(LAMBDA j : RMul(M[1][j + 1], KCof(M, 0, j)), 3)

\* the adjugate of M: the transposed cofactor matrix
KAdj(M) == Table(LAMBDA i : Table(LAMBDA j : KCof(M, j, i), 3), 3)

\* the inverse: the adjugate A scaled by r = 1/det
KInverse(A, r) == Table(LAMBDA i : Table(LAMBDA j : RMul(A[i + 1][j + 1], r), 3), 3)

\* dNdX[a][i] = sum_j dNdXi[a][j] * Jinv[j][i]
KdNdX(d, Jinv) ==
  Table(LAMBDA i : SumTo(LAMBDA j : RMul(d[j + 1], Jinv[j + 1][i + 1]), 3), 3)

KdNdXAll(T, Jinv) == Table(LAMBDA a : KdNdX(T[a + 1], Jinv), numNodes)

\* the Jacobian of E at the Gauss point of index q, and its determinant
KJAt(q, E) == Bind(LAMBDA T : KJ(E, T), KdNdXiAll(q))

KDetAt(q, E) == Bind(KDet, KJAt(q, E))

KResult(T, M, det) ==
  [detJ |-> det,
   dNdX |-> Bind(LAMBDA Jinv : KdNdXAll(T, Jinv), Bind2(KInverse, KAdj(M), RInv(det)))]

\* shapeFunctionDerivatives( q, X, dNdX ): the returned determinant and the
\* filled dNdX
shapeFunctionDerivatives(q, E) ==
  Bind(LAMBDA T :
         Bind(LAMBDA M : Bind(LAMBDA det : KResult(T, M, det), KDet(M)), KJ(E, T)),
       KdNdXiAll(q))

(***************************************************************************)
(* The inputs: the element handed to the kernel and, for the shape basis   *)
(* alone, the reference coordinate.                                        *)
(***************************************************************************)
\* the node displacements tried are 5, 10, .. tenths up to 5 * MaxShift
MaxShift == 1

\* the components of a reference coordinate tried are k/2, |k| <= MaxXi
MaxXi == 2

\* the regular cube: node a at its own sign corner
Cube ==
  << << -10, -10, -10 >>, << 10, -10, -10 >>, << -10, 10, -10 >>, << 10, 10, -10 >>,
     << -10, -10, 10 >>, << 10, -10, 10 >>, << -10, 10, 10 >>, << 10, 10, 10 >> >>

\* E with node a0 moved by d tenths along axis i0
Moved(E, a0, i0, d) ==
  [E EXCEPT ![a0 + 1] = [@ EXCEPT ![i0 + 1] = @ + d]]

\* the cube pressed flat onto the plane z = 0
Flat ==
  << << -10, -10, 0 >>, << 10, -10, 0 >>, << -10, 10, 0 >>, << 10, 10, 0 >>,
     << -10, -10, 0 >>, << 10, -10, 0 >>, << -10, 10, 0 >>, << 10, 10, 0 >> >>

\* the cube with node 0 pushed through the opposite face: inverted near
\* node 0 only
Folded == Moved(Cube, 0, 0, 35)

\* node a with its sign on axis k negated
FlipIndex(a, k) ==
  LET w == IF k = 0 THEN 1 ELSE IF k = 1 THEN 2 ELSE 4
  IN  IF (a \div w) % 2 = 0 THEN a + w ELSE a - w

\* E with its node sequence flipped along axis k
FlipNodes(E, k) ==
  << E[FlipIndex(0, k) + 1], E[FlipIndex(1, k) + 1], E[FlipIndex(2, k) + 1],
     E[FlipIndex(3, k) + 1], E[FlipIndex(4, k) + 1], E[FlipIndex(5, k) + 1],
     E[FlipIndex(6, k) + 1], E[FlipIndex(7, k) + 1] >>

Elements ==
  {Cube, xCoords, Flat, Folded}
    \cup {FlipNodes(Cube, k) : k \in Axes}
    \cup {FlipNodes(xCoords, k) : k \in Axes}
    \cup {Moved(Cube, a, i, 5 * m) : a \in Nodes, i \in Axes, m \in 1 .. MaxShift}

XiValues ==
  {RRat(k, 2) : k \in -MaxXi .. MaxXi} \cup {quadratureFactor, RNeg(quadratureFactor)}

XiSet == {<< x0, x1, x2 >> : x0 \in XiValues, x1 \in XiValues, x2 \in XiValues}

Policies == {"serialPolicy", "parallelDevicePolicy"}

(***************************************************************************)
(* The state of testKernelDriver< POLICY >().                              *)
(***************************************************************************)
VARIABLES
  X,          \* the node coordinates the kernel is handed, in tenths
  policy,     \* POLICY
  pc,         \* the place in the driver
  iq,         \* the q each iteration of the running forAll has reached
  viewN,      \* viewN( q, a )
  viewDetJ,   \* viewDetJ[ q ]
  viewdNdX,   \* viewdNdX( q, a, i )
  writer,     \* per output place, the kernel iterations that have written it
  cq,         \* q of the checking loop
  xi,         \* xi[3] of the checking loop
  Nref,       \* the N of the checking loop, node after node
  J,          \* J[3][3] of the checking loop
  detJ,       \* detJ of the checking loop
  dNdX,       \* the dNdX[3] of the checking loop, node after node
  failed,     \* the kinds of EXPECT_FLOAT_EQ that have failed
  m_parameters, \* TrilinosSolver: the LinearSolverParameters it was built with
  step,       \* TrilinosSolver: the place in solve()
  given,      \* TrilinosSolver: mat and rhs as solve() was handed them
  mat,        \* TrilinosSolver: the matrix
  rhs,        \* TrilinosSolver: the right-hand side
  calls,      \* TrilinosSolver: the library calls made so far, in order
  errors      \* TrilinosSolver: the messages GEOS_ERROR has reported

solverVars == << m_parameters, step, given, mat, rhs, calls, errors >>

vars == << X, policy, pc, iq, viewN, viewDetJ, viewdNdX, writer, cq, xi,
           Nref, J, detJ, dNdX, failed, m_parameters, step, given, mat, rhs,
           calls, errors >>

Vec0 == << Zero, Zero, Zero >>

Mat0 == << Vec0, Vec0, Vec0 >>

Row0 == << Zero, Zero, Zero, Zero, Zero, Zero, Zero, Zero >>

Grad0 == << Vec0, Vec0, Vec0, Vec0, Vec0, Vec0, Vec0, Vec0 >>

Places == {"viewN", "viewDetJ", "viewdNdX"} \X QPoints

Iterations == 0 .. forAllCount - 1

\* no TrilinosSolver is at work
SolverIdle ==
  /\ m_parameters = [solverType |-> "direct", preconditionerType |-> "none",
                     useRowScaling |-> FALSE, isSymmetric |-> FALSE, verbosity |-> 0]
  /\ step = "idle"
  /\ given = [mat |-> << >>, rhs |-> << >>]
  /\ mat = << >>
  /\ rhs = << >>
  /\ calls = << >>
  /\ errors = {}

InitCommon ==
  /\ SolverIdle
  /\ iq = [i \in Iterations |-> 0]
  /\ viewN = [q \in QPoints |-> Row0]
  /\ viewDetJ = [q \in QPoints |-> Zero]
  /\ viewdNdX = [q \in QPoints |-> Grad0]
  /\ writer = [p \in Places |-> {}]
  /\ cq = 0
  /\ Nref = << >>
  /\ J = Mat0
  /\ detJ = Zero
  /\ dNdX = << >>
  /\ failed = {}

Init ==
  /\ X \in Elements
  /\ policy \in Policies
  /\ pc = "shapeValues"
  /\ xi = Vec0
  /\ InitCommon

(***************************************************************************)
(* forAll< POLICY >( n, body ): the iterations that may take their next    *)
(* step.  serialPolicy runs them one after the other in index order; the   *)
(* device policy runs them in any order and interleaving.                  *)
(***************************************************************************)
Unfinished(pos) == {i \in Iterations : pos[i] < numQuadraturePoints}

Runnable(pol, pos) ==
  IF pol = "serialPolicy"
    THEN {i \in Unfinished(pos) : \A j \in Unfinished(pos) : i <= j}
    ELSE Unfinished(pos)

\* Returns for a device launch that does not wait for its iterations
ReturnsSlip(pos, i) ==
  IF policy = "parallelDevicePolicy" THEN TRUE
  ELSE Unfinished([pos EXCEPT ![i] = @ + 1]) = {}

\* the forAll returns when this step of iteration i was the last one
Returns(pos, i) == Unfinished([pos EXCEPT ![i] = @ + 1]) = {}

(***************************************************************************)
(* The two kernels.  What one pass of a kernel's q loop writes: a map      *)
(* from output places to the values stored there.                          *)
(***************************************************************************)
ShapeValuesWrites(q) == << "viewN", q >> :> shapeFunctionValues(q)

\* DerivativesStores that stores the determinant into viewN as well
DerivativesStoresSlip(q, r) ==
  (<< "viewDetJ", q >> :> r.detJ) @@ (<< "viewdNdX", q >> :> r.dNdX)
    @@ (<< "viewN", q >> :> [a \in 1 .. numNodes |-> r.detJ])

DerivativesStores(q, r) ==
  (<< "viewDetJ", q >> :> r.detJ) @@ (<< "viewdNdX", q >> :> r.dNdX)

\* DerivativesWrites that gives up on a determinant that is not positive
DerivativesWritesSlip(q, E) ==
  Bind(LAMBDA r : IF RSign(r.detJ) <= 0 THEN << >> ELSE DerivativesStores(q, r),
       shapeFunctionDerivatives(q, E))

DerivativesWrites(q, E) ==
  Bind(LAMBDA r : DerivativesStores(q, r), shapeFunctionDerivatives(q, E))

\* array `name` after the writes W
Stored(name, view, W) ==
  [q \in QPoints |-> IF << name, q >> \in DOMAIN W THEN W[<< name, q >>] ELSE view[q]]

Logged(w, W, task) == [p \in Places |-> IF p \in DOMAIN W THEN w[p] \cup {task} ELSE w[p]]

\* the step of iteration i of a kernel that writes W
KernelStep(i, W, next) ==
  /\ viewN' = Stored("viewN", viewN, W)
  /\ viewDetJ' = Stored("viewDetJ", viewDetJ, W)
  /\ viewdNdX' = Stored("viewdNdX", viewdNdX, W)
  /\ writer' = Logged(writer, W, << pc, i >>)
  /\ IF Returns(iq, i)
       THEN pc' = next /\ iq' = [j \in Iterations |-> 0]
       ELSE pc' = pc /\ iq' = [iq EXCEPT ![i] = @ + 1]
  /\ UNCHANGED solverVars
  /\ UNCHANGED << X, policy, cq, xi, Nref, J, detJ, dNdX, failed >>

ShapeValuesStep(i) ==
  /\ pc = "shapeValues"
  /\ i \in Runnable(policy, iq)
  /\ \E W \in {ShapeValuesWrites(iq[i])} : KernelStep(i, W, "derivatives")

DerivativesStep(i) ==
  /\ pc = "derivatives"
  /\ i \in Runnable(policy, iq)
  /\ \E W \in {DerivativesWrites(iq[i], X)} : KernelStep(i, W, "checkN")

(***************************************************************************)
(* The checking loop, one quadrature point in four steps.                  *)
(***************************************************************************)
\* whether a group of comparisons records a failure: TRUE when one of them
\* can fail, FALSE when all of them can pass
Failing(pairs) ==
  {b \in BOOLEAN :
     IF b THEN \E p \in pairs : FALSE \in CmpOutcomes(p[1], p[2])
          ELSE \A p \in pairs : TRUE \in CmpOutcomes(p[1], p[2])}

Expect(what, pairs) ==
  \E b \in Failing(pairs) : failed' = IF b THEN failed \cup {what} ELSE failed

CheckN ==
  /\ pc = "checkN"
  /\ \E x \in {xiAt(cq)} : \E N \in {refNAll(x)} :
        /\ xi' = x
        /\ Nref' = N
        /\ Expect("N", {<< N[a + 1], viewN[cq][a + 1] >> : a \in Nodes})
  /\ pc' = "checkJ"
  /\ UNCHANGED solverVars
  /\ UNCHANGED << X, policy, iq, viewN, viewDetJ, viewdNdX, writer, cq, J,
                  detJ, dNdX >>

CheckJ ==
  /\ pc = "checkJ"
  /\ J' = refJ(X, xi)
  /\ pc' = "checkDet"
  /\ UNCHANGED solverVars
  /\ UNCHANGED << X, policy, iq, viewN, viewDetJ, viewdNdX, writer, cq, xi,
                  Nref, detJ, dNdX, failed >>

CheckDet ==
  /\ pc = "checkDet"
  /\ \E r \in {inverse(J)} : \E d \in {RDiv(One, r.invDet)} :
        /\ J' = r.J
        /\ detJ' = d
        /\ Expect("detJ", {<< d, viewDetJ[cq] >>})
  /\ pc' = "checkGrad"
  /\ UNCHANGED solverVars
  /\ UNCHANGED << X, policy, iq, viewN, viewDetJ, viewdNdX, writer, cq, xi,
                  Nref, dNdX >>

CheckGrad ==
  /\ pc = "checkGrad"
  /\ \E G \in {refdNdXAll(xi, J)} :
        /\ dNdX' = G
        /\ Expect("dNdX", {<< G[a + 1][i + 1], viewdNdX[cq][a + 1][i + 1] >> :
                             a \in Nodes, i \in Axes})
  /\ cq' = cq + 1
  /\ pc' = IF cq + 1 = numQuadraturePoints THEN "done" ELSE "checkN"
  /\ UNCHANGED solverVars
  /\ UNCHANGED << X, policy, iq, viewN, viewDetJ, viewdNdX, writer, xi,
                  Nref, J, detJ >>

Next ==
  \/ \E i \in Iterations : ShapeValuesStep(i)
  \/ \E i \in Iterations : DerivativesStep(i)
  \/ CheckN
  \/ CheckJ
  \/ CheckDet
  \/ CheckGrad

Spec == Init /\ [][Next]_vars

(***************************************************************************)
(* The shape basis alone, at any reference coordinate: the loop over the   *)
(* nodes that fills N, one node a step.                                    *)
(***************************************************************************)
InitBasis ==
  /\ X = xCoords
  /\ policy = "serialPolicy"
  /\ pc = "basis"
  /\ xi \in XiSet
  /\ InitCommon

BasisStep ==
  /\ pc = "basis"
  /\ Len(Nref) < numNodes
  /\ Nref' = Append(Nref, refN(xi, Len(Nref)))
  /\ UNCHANGED solverVars
  /\ UNCHANGED << X, policy, pc, iq, viewN, viewDetJ, viewdNdX, writer, cq,
                  xi, J, detJ, dNdX, failed >>

NextBasis == BasisStep

SpecBasis == InitBasis /\ [][NextBasis]_vars


(***************************************************************************)
(* Properties.                                                             *)
(***************************************************************************)
\* the checking loop has just finished a quadrature point: xi, J (inverted),
\* detJ and dNdX are those of point cq - 1
AfterGrad == pc \in {"checkN", "done"} /\ cq > 0

\* both kernels have returned and nothing has been checked yet
KernelsReturned == pc = "checkN" /\ cq = 0

Delta(i, k) == IF i = k THEN One ELSE Zero

\* sum_a coord[a][i] * G[a][k]
CoordGrad(E, G, i, k) ==
  SumTo(LAMBDA a : RMul(Coord(E, a, i), G[a + 1][k + 1]), numNodes)

\* the determinant the reference computation finds for E at x
DetOf(E, x) == RDiv(One, inverse(refJ(E, x)).invDet)

\* C1: at every reference coordinate, the eight shape values sum to 1
PartitionOfUnity ==
  Len(Nref) = numNodes => REq(SumTo(LAMBDA a : Nref[a + 1], numNodes), One)

PartitionOfUnityAtGaussPoint ==
  /\ Len(Nref) = numNodes
  /\ xi = xiAt(5)
  /\ Nref[1] # Nref[8]

\* C2: where the determinant is not zero, sum_a coord[a][i] * dNdX[a][k] is
\* the identity matrix
IsoparametricConsistency ==
  (AfterGrad /\ RSign(detJ) # 0) =>
    \A i \in Axes : \A k \in Axes : REq(CoordGrad(X, dNdX, i, k), Delta(i, k))

IsoparametricOnSkewedHex ==
  /\ AfterGrad
  /\ cq = numQuadraturePoints
  /\ X = xCoords
  /\ RSign(detJ) > 0
  /\ Len(dNdX) = numNodes

\* C3: where the determinant is not zero, each component of the physical
\* gradients sums to zero over the eight nodes
GradientOfConstantIsZero ==
  (AfterGrad /\ RSign(detJ) # 0) =>
    \A k \in Axes : REq(SumTo(LAMBDA a : dNdX[a + 1][k + 1], numNodes), Zero)

GradientSumOnMovedCube ==
  /\ AfterGrad
  /\ X = Moved(Cube, 7, 2, 5)
  /\ RSign(detJ) > 0
  /\ \E a \in Nodes : dNdX[a + 1] # refdNdXi(xi, a)

\* C4: the N that shapeFunctionValues fills for q is, node by node, the
\* trilinear value at the Gauss point of q, corners and Gauss points both
\* enumerated with axis 0 fastest: no comparison of N fails
ShapeValuesMatch ==
  /\ "N" \notin failed
  /\ pc = "checkJ" =>
       /\ \A a \in Nodes : REq(viewN[cq][a + 1], Nref[a + 1])
       /\ \A k \in Axes : REq(xi[k + 1], RMul(quadratureFactor, RInt(parentCoords(k, cq))))

ShapeValuesCompared ==
  /\ pc = "checkJ"
  /\ cq = 6
  /\ viewN[cq] = Nref
  /\ Nref[7] # Nref[1]

\* C5: where the determinant is not zero, shapeFunctionDerivatives returns
\* the determinant of J and fills the dNdX the reference computation finds
DerivativesMatch ==
  (AfterGrad /\ RSign(detJ) # 0) =>
    /\ REq(viewDetJ[cq - 1], detJ)
    /\ \A a \in Nodes : \A i \in Axes :
         REq(viewdNdX[cq - 1][a + 1][i + 1], dNdX[a + 1][i + 1])

DerivativesComparedOnSkewedHex ==
  /\ AfterGrad
  /\ X = xCoords
  /\ cq = 3
  /\ RSign(viewDetJ[cq - 1]) > 0
  /\ ~REq(viewDetJ[cq - 1], One)

\* C6: for the regular cube the Jacobian is the identity at every quadrature
\* point, the determinant is 1 and dNdX is dNdXi
RegularCube ==
  X = Cube =>
    /\ pc = "checkDet" => \A i \in Axes : \A j \in Axes : REq(J[i + 1][j + 1], Delta(i, j))
    /\ AfterGrad =>
         /\ REq(detJ, One)
         /\ \A a \in Nodes : \A i \in Axes :
              REq(dNdX[a + 1][i + 1], refdNdXiAt(xi, a, i))

RegularCubeChecked ==
  /\ X = Cube
  /\ pc = "done"
  /\ detJ = One
  /\ Len(dNdX) = numNodes

\* C7: flipping the node sequence along one axis negates the determinant:
\* the determinant of the flipped element at the quadrature point mirrored
\* on that axis is minus the determinant of the element at the point itself
FlipNegatesMirroredDeterminant ==
  pc = "checkGrad" =>
    \A k \in Axes :
      REq(DetOf(FlipNodes(X, k), xiAt(FlipIndex(cq, k))), RNeg(detJ))

FlipOfSkewedHex ==
  /\ pc = "checkGrad"
  /\ X = FlipNodes(xCoords, 1)
  /\ RSign(detJ) < 0
  /\ cq = 4

\* C7 as claimed: the flip changes the sign of the determinant at every
\* quadrature point
FlipFlipsSignAtEveryPoint ==
  pc = "checkGrad" =>
    \A k \in Axes : RSign(DetOf(FlipNodes(X, k), xi)) = -RSign(detJ)

\* the output entries of quadrature point q differ between views v and w
Touched(v, w, q) == v[q] # w[q]

SequentialN == [q \in QPoints |-> shapeFunctionValues(q)]

SequentialDetJ(E) == [q \in QPoints |-> shapeFunctionDerivatives(q, E).detJ]

SequentialdNdX(E) == [q \in QPoints |-> shapeFunctionDerivatives(q, E).dNdX]

DegenerateNotDetected ==
  /\ KernelsReturned =>
       \A q \in QPoints :
         /\ writer[<< "viewDetJ", q >>] # {}
         /\ writer[<< "viewdNdX", q >>] # {}
  /\ (pc = "checkGrad" /\ RSign(detJ) <= 0) => REq(viewDetJ[cq], detJ)
  /\ (pc = "derivatives" /\ \E i \in Iterations : iq[i] > 0) =>
       \A i \in Iterations : \A q \in 0 .. iq[i] - 1 : writer[<< "viewDetJ", q >>] # {}

FlatProcessed ==
  /\ pc = "checkGrad"
  /\ cq = numQuadraturePoints - 1
  /\ X = Flat
  /\ detJ = Zero
  /\ viewDetJ[cq] = Zero


(***************************************************************************)
(* TrilinosSolver::solve (TrilinosSolver.cpp).  The Epetra, Amesos, AztecOO *)
(* and ML calls are recorded in `calls` in the order they are made; of     *)
(* their effects only the row scaling of mat and rhs is modelled.          *)
(* GEOS_ERROR is defined outside these sources: it reports its message,    *)
(* and then either ends the run or returns to the caller.                  *)
(***************************************************************************)
\* the verbosity levels tried are 0 .. MaxVerbosity
MaxVerbosity == 3

SolverTypes == {"direct", "gmres", "bicgstab", "cg", "Direct", "chebyshev"}

PreconditionerTypes == {"none", "jacobi", "ilu", "icc", "ilut", "amg", "mgr"}

Parameters ==
  [solverType : SolverTypes, preconditionerType : PreconditionerTypes,
   useRowScaling : BOOLEAN, isSymmetric : BOOLEAN, verbosity : 0 .. MaxVerbosity]

\* the linear systems tried, rows of integers
Systems ==
  {[mat |-> << << RInt(2), RInt(-1) >>, << RInt(-1), RInt(3) >> >>,
    rhs |-> << RInt(1), RInt(2) >>],
   [mat |-> << << RInt(4), RInt(0) >>, << RInt(1), RInt(1) >> >>,
    rhs |-> << RInt(-3), RInt(5) >>]}

driverVars == << X, policy, pc, iq, viewN, viewDetJ, viewdNdX, writer, cq, xi,
                 Nref, J, detJ, dNdX, failed >>

\* testKernelDriver is not running
DriverIdle ==
  /\ X = xCoords
  /\ policy = "serialPolicy"
  /\ pc = "done"
  /\ iq = [i \in Iterations |-> 0]
  /\ viewN = [q \in QPoints |-> Row0]
  /\ viewDetJ = [q \in QPoints |-> Zero]
  /\ viewdNdX = [q \in QPoints |-> Grad0]
  /\ writer = [p \in Places |-> {}]
  /\ cq = 0
  /\ xi = Vec0
  /\ Nref = << >>
  /\ J = Mat0
  /\ detJ = Zero
  /\ dNdX = << >>
  /\ failed = {}

InitSolver ==
  /\ DriverIdle
  /\ m_parameters \in Parameters
  /\ step = "solve"
  /\ given \in Systems
  /\ mat = given.mat
  /\ rhs = given.rhs
  /\ calls = << >>
  /\ errors = {}

RAbs(x) == IF RSign(x) < 0 THEN RNeg(x) ELSE x

\* Epetra_CrsMatrix::InvRowSums: one over the sum of the absolute values of
\* each row
InvRowSums(A) ==
  Table(LAMBDA i : RInv(SumTo(LAMBDA j : RAbs(A[i + 1][j + 1]), Len(A[i + 1]))), Len(A))

\* Epetra_CrsMatrix::LeftScale: row i multiplied by s[i]
LeftScale(A, s) ==
  Table(LAMBDA i : Table(LAMBDA j : RMul(s[i + 1], A[i + 1][j + 1]), Len(A[i + 1])), Len(A))

\* Epetra_MultiVector::Multiply( 1.0, s, tmp, 0.0 ): 1.0 * s[i] * tmp[i] + 0.0 * v[i]
Multiply(s, tmp, v) ==
  Table(LAMBDA i : RAdd(RMul(One, RMul(s[i + 1], tmp[i + 1])), RMul(Zero, v[i + 1])), Len(v))

\* the calls c made after those already made
Calling(c) == calls' = calls \o c

\* GEOS_ERROR( msg ) in a place followed by `next`
GEOS_ERROR(msg, next) ==
  /\ errors' = errors \cup {msg}
  /\ step' \in {"aborted", next}

\* lines 64-75: the row scaling
SolveScaling ==
  /\ step = "solve"
  /\ IF m_parameters.useRowScaling
       THEN \E scaling \in {InvRowSums(mat)} :
              /\ mat' = LeftScale(mat, scaling)
              /\ rhs' = Multiply(scaling, rhs, rhs)
              /\ Calling(<< << "InvRowSums" >>, << "LeftScale" >>, << "Multiply" >> >>)
       ELSE UNCHANGED << mat, rhs, calls >>
  /\ step' = "select"
  /\ UNCHANGED << m_parameters, given, errors >>
  /\ UNCHANGED driverVars

\* lines 77-84: the choice of the solver
SolveSelect ==
  /\ step = "select"
  /\ step' = IF m_parameters.solverType = "direct" THEN "solve_direct" ELSE "solve_krylov"
  /\ UNCHANGED << m_parameters, given, mat, rhs, calls, errors >>
  /\ UNCHANGED driverVars

\* solve_direct
SolveDirect ==
  /\ step = "solve_direct"
  /\ Calling(<< << "Amesos.Create", "Klu" >>, << "SymbolicFactorization" >>,
                << "NumericFactorization" >>, << "Solve" >> >>
             \o (IF m_parameters.verbosity > 0
                   THEN << << "PrintStatus" >>, << "PrintTiming" >> >>
                   ELSE << >>))
  /\ step' = "returned"
  /\ UNCHANGED << m_parameters, given, mat, rhs, errors >>
  /\ UNCHANGED driverVars

\* KrylovSolverType without its final else: an unknown solverType is let through
KrylovSolverTypeSlip ==
  /\ step = "solve_krylov"
  /\ Calling(<< << "AztecOO" >> >>
             \o (IF m_parameters.solverType = "gmres"
                   THEN << << "SetAztecOption", "AZ_solver", "AZ_gmres" >>,
                           << "SetAztecOption", "AZ_kspace", "maxRestart" >> >>
                 ELSE IF m_parameters.solverType = "bicgstab"
                   THEN << << "SetAztecOption", "AZ_solver", "AZ_bicgstab" >> >>
                 ELSE IF m_parameters.solverType = "cg"
                   THEN << << "SetAztecOption", "AZ_solver", "AZ_cg" >> >>
                 ELSE << >>))
  /\ step' = "preconditioner"
  /\ UNCHANGED << m_parameters, given, mat, rhs, errors >>
  /\ UNCHANGED driverVars

\* solve_krylov, lines 131-154: the AztecOO solver and its solver type
KrylovSolverType ==
  /\ step = "solve_krylov"
  /\ IF m_parameters.solverType = "gmres"
       THEN /\ Calling(<< << "AztecOO" >>,
                          << "SetAztecOption", "AZ_solver", "AZ_gmres" >>,
                          << "SetAztecOption", "AZ_kspace", "maxRestart" >> >>)
            /\ step' = "preconditioner"
            /\ UNCHANGED errors
     ELSE IF m_parameters.solverType = "bicgstab"
       THEN /\ Calling(<< << "AztecOO" >>,
                          << "SetAztecOption", "AZ_solver", "AZ_bicgstab" >> >>)
            /\ step' = "preconditioner"
            /\ UNCHANGED errors
     ELSE IF m_parameters.solverType = "cg"
       THEN /\ Calling(<< << "AztecOO" >>,
                          << "SetAztecOption", "AZ_solver", "AZ_cg" >> >>)
            /\ step' = "preconditioner"
            /\ UNCHANGED errors
     ELSE /\ Calling(<< << "AztecOO" >> >>)
          /\ GEOS_ERROR("The requested linear solverType doesn't seem to exist",
                        "preconditioner")
  /\ UNCHANGED << m_parameters, given, mat, rhs >>
  /\ UNCHANGED driverVars

\* the options of a domain-decomposition preconditioner with subdomain solve s
DomainDecomposition(s, fill) ==
  << << "SetAztecOption", "AZ_precond", "AZ_dom_decomp" >>,
     << "SetAztecOption", "AZ_overlap", "overlap" >>,
     << "SetAztecOption", "AZ_subdomain_solve", s >>,
     fill >>

\* solve_krylov, lines 156-229: the preconditioner type
KrylovPreconditioner ==
  /\ step = "preconditioner"
  /\ IF m_parameters.preconditionerType = "none"
       THEN /\ Calling(<< << "SetAztecOption", "AZ_precond", "AZ_none" >> >>)
            /\ step' = "iterate"
            /\ UNCHANGED errors
     ELSE IF m_parameters.preconditionerType = "jacobi"
       THEN /\ Calling(<< << "SetAztecOption", "AZ_precond", "AZ_Jacobi" >> >>)
            /\ step' = "iterate"
            /\ UNCHANGED errors
     ELSE IF m_parameters.preconditionerType = "ilu"
       THEN /\ Calling(DomainDecomposition("AZ_ilu",
                         << "SetAztecOption", "AZ_graph_fill", "fill" >>))
            /\ step' = "iterate"
            /\ UNCHANGED errors
     ELSE IF m_parameters.preconditionerType = "icc"
       THEN /\ Calling(DomainDecomposition("AZ_icc",
                         << "SetAztecOption", "AZ_graph_fill", "fill" >>))
            /\ step' = "iterate"
            /\ UNCHANGED errors
     ELSE IF m_parameters.preconditionerType = "ilut"
       THEN /\ Calling(DomainDecomposition("AZ_ilut",
                         << "SetAztecParam", "AZ_ilut_fill", "fill" >>))
            /\ step' = "iterate"
            /\ UNCHANGED errors
     ELSE IF m_parameters.preconditionerType = "amg"
       THEN /\ Calling(<< << "ML_Epetra::SetDefaults",
                             IF m_parameters.isSymmetric THEN "SA" ELSE "NSSA" >>,
                          << "MultiLevelPreconditioner" >>,
                          << "SetPrecOperator" >> >>)
            /\ step' = "iterate"
            /\ UNCHANGED errors
     ELSE /\ UNCHANGED calls
          /\ GEOS_ERROR("The requested preconditionerType doesn't seem to exist",
                        "iterate")
  /\ UNCHANGED << m_parameters, given, mat, rhs >>
  /\ UNCHANGED driverVars

\* solve_krylov, lines 231-251: the output options and the iteration
KrylovIterate ==
  /\ step = "iterate"
  /\ Calling(<< << "SetAztecOption", "AZ_conv", "AZ_rhs" >> >>
             \o (IF m_parameters.verbosity = 1
                   THEN << << "SetAztecOption", "AZ_output", "AZ_summary" >>,
                           << "SetAztecOption", "AZ_diagnostics", "AZ_all" >> >>
                 ELSE IF m_parameters.verbosity = 2
                   THEN << << "SetAztecOption", "AZ_output", "AZ_all" >>,
                           << "SetAztecOption", "AZ_diagnostics", "AZ_all" >> >>
                 ELSE << << "SetAztecOption", "AZ_output", "AZ_none" >> >>)
             \o << << "Iterate" >> >>)
  /\ step' = "returned"
  /\ UNCHANGED << m_parameters, given, mat, rhs, errors >>
  /\ UNCHANGED driverVars

NextSolver ==
  \/ SolveScaling
  \/ SolveSelect
  \/ SolveDirect
  \/ KrylovSolverType
  \/ KrylovPreconditioner
  \/ KrylovIterate

SpecSolver == InitSolver /\ [][NextSolver]_vars

\* the call named c has been made
Called(c) == \E n \in 1 .. Len(calls) : calls[n][1] = c

\* the number of the first call named c
FirstCall(c) == CHOOSE n \in 1 .. Len(calls) : calls[n][1] = c /\ \A k \in 1 .. n - 1 : calls[k][1] # c

KrylovSolverNames == {"gmres", "bicgstab", "cg"}

KrylovPreconditionerNames == {"none", "jacobi", "ilu", "icc", "ilut", "amg"}

\* one of the two paths has started
PathStarted == Called("Amesos.Create") \/ Called("AztecOO")

\* C11: the direct path runs exactly when solverType is "direct" and the
\* Krylov path otherwise; Iterate is reached with no error reported only with
\* a solverType among gmres, bicgstab, cg and a preconditionerType among
\* none, jacobi, ilu, icc, ilut, amg, and is so reached with each of them;
\* any other value on the Krylov path has an error reported; and with row
\* scaling on, mat and rhs are both scaled before either path starts
SolverSelection ==
  /\ step \in {"solve_direct", "solve_krylov", "preconditioner", "iterate",
               "returned", "aborted"} =>
       /\ (step = "solve_direct" \/ Called("Amesos.Create"))
            <=> m_parameters.solverType = "direct"
       /\ (step = "solve_krylov" \/ Called("AztecOO"))
            <=> m_parameters.solverType # "direct"
  /\ (Called("Iterate") /\ errors = {}) =>
       /\ m_parameters.solverType \in KrylovSolverNames
       /\ m_parameters.preconditionerType \in KrylovPreconditionerNames
  /\ (step \in {"returned", "aborted"} /\ m_parameters.solverType # "direct") =>
       IF /\ m_parameters.solverType \in KrylovSolverNames
          /\ m_parameters.preconditionerType \in KrylovPreconditionerNames
         THEN step = "returned" /\ Called("Iterate") /\ errors = {}
         ELSE errors # {}
  /\ (step = "returned" /\ m_parameters.solverType = "direct") =>
       /\ Called("Solve")
       /\ ~Called("Iterate")
       /\ errors = {}
  /\ (m_parameters.useRowScaling /\ step # "solve") =>
       /\ Called("LeftScale") /\ Called("Multiply")
       /\ PathStarted => /\ FirstCall("LeftScale") < Len(calls)
                         /\ \A n \in 1 .. Len(calls) :
                              calls[n][1] \in {"Amesos.Create", "AztecOO"} =>
                                /\ FirstCall("LeftScale") < n
                                /\ FirstCall("Multiply") < n
       /\ \A i \in 1 .. Len(mat) :
            /\ REq(rhs[i], RMul(InvRowSums(given.mat)[i], given.rhs[i]))
            /\ \A j \in 1 .. Len(mat[i]) :
                 REq(mat[i][j], RMul(InvRowSums(given.mat)[i], given.mat[i][j]))
            /\ REq(SumTo(LAMBDA j : RAbs(mat[i][j + 1]), Len(mat[i])), One)

ScaledKrylovSolveWithAmg ==
  /\ step = "returned"
  /\ m_parameters.solverType = "gmres"
  /\ m_parameters.preconditionerType = "amg"
  /\ m_parameters.useRowScaling
  /\ Called("Iterate")
  /\ errors = {}
  /\ mat # given.mat
  /\ rhs # given.rhs
=============================================================================
